---- MODULE Spec2Model ----
(***************************************************************************)
(* Solar data pipeline: loader, cleaner, cleaning-impact analysis and      *)
(* recommendation engine (src/src/*.py), as driven by scripts/main.py.     *)
(*                                                                         *)
(* A DataFrame is a record [index |-> sequence of row labels,              *)
(* data |-> function from column name to the sequence of that column's     *)
(* cells].  Row k of the frame is index[k] together with data[c][k] for    *)
(* every column c.  Numeric cells are integers; a missing cell is NaN.     *)
(* Every comparison with NaN is false, as in pandas.                       *)
(***************************************************************************)
EXTENDS Integers, Sequences, FiniteSets, TLC

VARIABLES
    pc,            \* where the run stands
    files,         \* what Config.DATA_DIR holds for each region
    region_i,      \* load_all_regions_data: position in Config.REGIONS
    dfs,           \* load_all_regions_data: the frames loaded so far
    log,           \* the warnings logged
    error,         \* the exception raised, "none" when none was
    raw_df,        \* main: raw_df
    cleaned_df,    \* main: cleaned_df
    recleaned_df,  \* clean_data(cleaned_df)
    cleaning_impact, \* main: cleaning_impact
    recommendations, \* main: recommendations
    quality_report,  \* main: quality_report
    regional_stats,  \* main: regional_stats
    missing          \* the columns a KeyError names

vars == <<pc, files, region_i, dfs, log, error, raw_df, cleaned_df, recleaned_df,
          cleaning_impact, recommendations, quality_report, regional_stats, missing>>

analysisVars == <<cleaning_impact, recommendations>>

reportVars == <<quality_report, regional_stats, missing>>

loaderVars == <<files, region_i, dfs, log>>

(* The missing-cell marker (numpy.nan); no data cell takes this value. *)
NaN == -999999

IsNaN(v) == v = NaN

(* The Region tag is text and is set in every row (data_loading.py), so it *)
(* never holds a missing cell; a Comments cell is NaN or the code of its   *)
(* category.                                                               *)
TextCols == {"Region"}

(* ------------------------------ config.py ------------------------------ *)
REGIONS == <<"Benin", "Sierraleon", "Togo">>

SOLAR_COLS == <<"GHI", "DNI", "DHI", "ModA", "ModB">>

OUTLIER_COLS == SOLAR_COLS \o <<"Tamb", "WS">>

(* --------------------------- DataFrame basics -------------------------- *)
Columns(df) == DOMAIN df.data

NRows(df) == Len(df.index)

Range(s) == {s[k] : k \in DOMAIN s}

(* 0, 1, ..., n-1: the labels of a RangeIndex *)
RangeIndex(n) == [k \in 1..n |-> k - 1]

EmptyFrame == [index |-> <<>>, data |-> <<>>]

(* s restricted to the positions where mask is TRUE, order kept *)
RECURSIVE SelectSeq2(_, _)
SelectSeq2(s, mask) ==
    IF s = <<>> THEN <<>>
    ELSE IF Head(mask) THEN <<Head(s)>> \o SelectSeq2(Tail(s), Tail(mask))
         ELSE SelectSeq2(Tail(s), Tail(mask))

(* df[mask]: boolean-mask row selection, labels kept *)
SelectRows(df, mask) ==
    [index |-> SelectSeq2(df.index, mask),
     data  |-> [c \in Columns(df) |-> SelectSeq2(df.data[c], mask)]]

(* df.reset_index(drop=True) *)
ResetIndex(df) == [df EXCEPT !.index = RangeIndex(NRows(df))]

(* df.drop(columns=c, errors='ignore') *)
DropColumn(df, c) ==
    [df EXCEPT !.data = [d \in Columns(df) \ {c} |-> df.data[d]]]

(* ---------------------------- data_cleaning.py ------------------------- *)
(* Series.ffill(): a missing cell takes the last non-missing cell before it *)
RECURSIVE FfillFrom(_, _)
FfillFrom(s, last) ==
    IF s = <<>> THEN <<>>
    ELSE LET v == IF IsNaN(Head(s)) THEN last ELSE Head(s)
         IN  <<v>> \o FfillFrom(Tail(s), v)

(* ffill(limit=1): only the first cell of a run of missing cells is filled, *)
(* from the cell before it                                                   *)
FfillLimit1(s) ==
    [k \in DOMAIN s |-> IF IsNaN(s[k]) /\ k > 1 THEN s[k - 1] ELSE s[k]]

FfillSeq(s) == FfillFrom(s, NaN)

(* a fill that looks back only over the rows of the cell's own region, as  *)
(* groupby('Region').ffill() would                                         *)
FfillByRegion(df) ==
    [df EXCEPT !.data = [c \in Columns(df) |->
        IF c \in TextCols THEN df.data[c]
        ELSE [k \in 1..NRows(df) |->
                LET seen == {j \in 1..k :
                                /\ ~IsNaN(df.data[c][j])
                                /\ "Region" \in Columns(df) =>
                                       df.data["Region"][j] = df.data["Region"][k]}
                IN  IF seen = {} THEN NaN
                    ELSE df.data[c][CHOOSE j \in seen : \A i \in seen : i <= j]]]]

(* DataFrame.ffill(): every column is filled down the rows of the whole    *)
(* frame; the Region column has no missing cell and stays as it is         *)
Ffill(df) ==
    [df EXCEPT !.data = [c \in Columns(df) |->
        IF c \in TextCols THEN df.data[c] ELSE FfillSeq(df.data[c])]]

(* a guard that lets every column through *)
HasColumnMutant(df, col) == TRUE

(* if col in df_clean.columns *)
HasColumn(df, col) == col \in Columns(df)

(* a clip that leaves every cell as it is *)
ClipLowerMutant(v, lo) == v

(* Series.clip(lower=lo): NaN stays NaN *)
ClipLower(v, lo) == IF IsNaN(v) THEN v ELSE IF v < lo THEN lo ELSE v

(* Series.clip(lo, hi) *)
ClipBoth(v, lo, hi) ==
    IF IsNaN(v) THEN v ELSE IF v < lo THEN lo ELSE IF v > hi THEN hi ELSE v

ClipSolar(df, cols) ==
    [df EXCEPT !.data = [c \in Columns(df) |->
        IF c \in cols
        THEN [k \in DOMAIN df.data[c] |-> ClipLower(df.data[c][k], 0)]
        ELSE df.data[c]]]

ClipRH(df) ==
    IF HasColumn(df, "RH")
    THEN [df EXCEPT !.data["RH"] =
             [k \in DOMAIN df.data["RH"] |-> ClipBoth(df.data["RH"][k], 0, 100)]]
    ELSE df

(* the non-missing cells of s in ascending order *)
RECURSIVE Insert(_, _)
Insert(v, s) ==
    IF s = <<>> THEN <<v>>
    ELSE IF v <= Head(s) THEN <<v>> \o s
         ELSE <<Head(s)>> \o Insert(v, Tail(s))

RECURSIVE SortedValid(_)
SortedValid(s) ==
    IF s = <<>> THEN <<>>
    ELSE IF IsNaN(Head(s)) THEN SortedValid(Tail(s))
         ELSE Insert(Head(s), SortedValid(Tail(s)))

(* a quantile read at position n*num/4, counted from 1 *)
Quantile4Mutant(s, num) ==
    LET v == SortedValid(s)
        n == Len(v)
        lo == (n * num) \div 4
        r == (n * num) % 4
    IN  IF n = 0 THEN NaN
        ELSE IF lo = 0 THEN 4 * v[1]
        ELSE IF r = 0 \/ lo >= n THEN 4 * v[IF lo >= n THEN n ELSE lo]
        ELSE 4 * v[lo] + r * (v[lo + 1] - v[lo])

(* 4 * Series.quantile(num/4), linear interpolation between the order       *)
(* statistics at position (n-1)*num/4; NaN when no cell is valid.           *)
(* The factor 4 keeps the interpolated value an integer.                    *)
Quantile4(s, num) ==
    LET v == SortedValid(s)
        n == Len(v)
        lo == ((n - 1) * num) \div 4
        r == ((n - 1) * num) % 4
    IN  IF n = 0 THEN NaN
        ELSE IF r = 0 THEN 4 * v[lo + 1]
        ELSE 4 * v[lo + 1] + r * (v[lo + 2] - v[lo + 1])

(* 8 * (q1 - 1.5*iqr) and 8 * (q3 + 1.5*iqr), from 4*q1 and 4*q3 *)
LowerBound8(q1x4, q3x4) == 2 * q1x4 - 3 * (q3x4 - q1x4)

UpperBound8(q1x4, q3x4) == 2 * q3x4 + 3 * (q3x4 - q1x4)

(* (s >= q1 - 1.5*iqr) & (s <= q3 + 1.5*iqr), cell by cell *)
InBounds(v, q1x4, q3x4) ==
    /\ ~IsNaN(v)
    /\ ~IsNaN(q1x4)
    /\ 8 * v >= LowerBound8(q1x4, q3x4)
    /\ 8 * v <= UpperBound8(q1x4, q3x4)

(* a mask that checks the upper bound only *)
OutlierMaskMutant(s) ==
    LET q1x4 == Quantile4(s, 1)
        q3x4 == Quantile4(s, 3)
    IN  [k \in DOMAIN s |-> ~IsNaN(s[k]) /\ ~IsNaN(q1x4)
                            /\ 8 * s[k] <= UpperBound8(q1x4, q3x4)]

(* the row mask of one column: cells within both bounds *)
OutlierMask(s) ==
    LET q1x4 == Quantile4(s, 1)
        q3x4 == Quantile4(s, 3)
    IN  [k \in DOMAIN s |-> InBounds(s[k], q1x4, q3x4)]

(* one turn of the outlier loop for column col *)
RemoveOutliers(df, col) ==
    IF HasColumn(df, col) THEN SelectRows(df, OutlierMask(df.data[col])) ELSE df

(* the outlier loop over the first n columns of OUTLIER_COLS *)
RECURSIVE OutlierLoop(_, _)
OutlierLoop(df, n) ==
    IF n = 0 THEN df ELSE RemoveOutliers(OutlierLoop(df, n - 1), OUTLIER_COLS[n])

(* the frame as it stands when the outlier loop starts: annotation column *)
(* dropped, forward-filled, clipped                                        *)
Prepared(df) ==
    ClipRH(ClipSolar(Ffill(DropColumn(df, "Comments")), Range(SOLAR_COLS)))

(* a cleaner that computes every column's mask over the prepared frame and *)
(* rejects the rows that fail any of them in one step                      *)
clean_dataMutant(df) ==
    LET p == Prepared(df)
        checked == {c \in Range(OUTLIER_COLS) : c \in Columns(p)}
    IN  ResetIndex(SelectRows(p,
            [k \in 1..NRows(p) |-> \A c \in checked : OutlierMask(p.data[c])[k]]))

clean_data(df) == ResetIndex(OutlierLoop(Prepared(df), Len(OUTLIER_COLS)))

(* the columns clean_data subscripts df_clean with: each one behind its    *)
(* guard                                                                   *)
Lookups(df) ==
    {c \in Range(SOLAR_COLS) \cup {"RH"} \cup Range(OUTLIER_COLS) : HasColumn(df, c)}

(* drop(columns=c, errors=errors) raises KeyError for an absent column     *)
(* unless errors is 'ignore'                                               *)
DropRaises(df, c, errors) == errors # "ignore" /\ c \notin Columns(df)

(* clean_data raises KeyError: the drop does, or a column it subscripts is *)
(* absent                                                                  *)
CleanKeyError(df) ==
    \/ DropRaises(df, "Comments", "ignore")
    \/ ~(Lookups(df) \subseteq Columns(df))

(* the caller's frame after clean_data(df), had drop and ffill worked in   *)
(* place                                                                   *)
InputAfterCleanMutant(df) == Ffill(DropColumn(df, "Comments"))

(* the caller's frame after clean_data(df): drop() and ffill() return new  *)
(* frames and every later assignment is to df_clean                        *)
InputAfterClean(df) == df

(* ----------------------- generate_quality_report ----------------------- *)
(* .sum() of a boolean column: the number of TRUE cells *)
Count(mask) == Len(SelectSeq(mask, LAMBDA b : b))

(* the columns select_dtypes(include=np.number) leaves out *)
NonNumericCols == TextCols \cup {"Comments"}

(* ranges: the (min, max) of the range-checked columns *)
RangeMin(c) == CASE c = "GHI" -> 0 [] c = "RH" -> 0 [] c = "Tamb" -> -20

RangeMax(c) == CASE c = "GHI" -> 1500 [] c = "RH" -> 100 [] c = "Tamb" -> 60

RangeCols == {"GHI", "RH", "Tamb"}

(* the report: one row per column of df; a cell that is never assigned     *)
(* (Negatives of a non-numeric column, Out of Range of a column without a  *)
(* range) is NaN                                                           *)
generate_quality_report(df) ==
    [c \in Columns(df) |->
        [Missing    |-> IF c \in TextCols THEN 0
                        ELSE Count([k \in 1..NRows(df) |-> IsNaN(df.data[c][k])]),
         Zeros      |-> IF c \in TextCols THEN 0
                        ELSE Count([k \in 1..NRows(df) |-> df.data[c][k] = 0]),
         Negatives  |-> IF c \in NonNumericCols THEN NaN
                        ELSE Count([k \in 1..NRows(df) |->
                                ~IsNaN(df.data[c][k]) /\ df.data[c][k] < 0]),
         OutOfRange |-> IF c \notin RangeCols THEN NaN
                        ELSE Count([k \in 1..NRows(df) |->
                                /\ ~IsNaN(df.data[c][k])
                                /\ \/ df.data[c][k] < RangeMin(c)
                                   \/ df.data[c][k] > RangeMax(c)])]]

(* the caller's frame after generate_quality_report(df): it only reads df  *)
InputAfterReport(df) == df

(* ------------------- cleaning: inputs and state machine ---------------- *)
MaxRows == 5

MaxRowsRH == 3

(* the readings of the GHI scenario: [-5, 10, 2000, 15, 12] *)
ScenarioGHI == <<-5, 10, 2000, 15, 12>>

Frame(n, d) == [index |-> RangeIndex(n), data |-> d]

(* one-column frames over the scenario's readings *)
IsGHIFrame(df) ==
    \E n \in 0..MaxRows : \E g \in [1..n -> Range(ScenarioGHI)] :
        df = Frame(n, [c \in {"GHI"} |-> g])

(* two outlier-checked columns, so that a later column's rejections change *)
(* the quartiles of an earlier one                                          *)
IsTwoColFrame(df) ==
    \E n \in 0..MaxRows : \E g \in [1..n -> {0, 10}], w \in [1..n -> {0, 9}] :
        df = Frame(n, [c \in {"GHI", "WS"} |-> IF c = "GHI" THEN g ELSE w])

(* missing and out-of-range cells, in a checked and an unchecked column *)
IsRHFrame(df) ==
    \E n \in 0..MaxRowsRH :
        \E g \in [1..n -> {NaN, -5, 10}], h \in [1..n -> {NaN, -1, 50, 101}] :
            df = Frame(n, [c \in {"GHI", "RH"} |-> IF c = "GHI" THEN g ELSE h])

(* the code of an annotation *)
SomeComment == 7

(* concatenated rows of Benin and Togo with an annotation column: negative *)
(* GHI readings, missing RH cells on either side of the region boundary    *)
IsRegionFrame(df) ==
    \E n \in 0..MaxRowsRH :
        \E g \in [1..n -> {-5, 10}], h \in [1..n -> {NaN, 50, 70}],
           split \in 0..n, note \in BOOLEAN :
            df = Frame(n, [c \in {"GHI", "RH", "Region", "Comments"} |->
                    CASE c = "GHI"      -> g
                      [] c = "RH"       -> h
                      [] c = "Region"   -> [k \in 1..n |-> IF k <= split THEN "Benin" ELSE "Togo"]
                      [] c = "Comments" -> [k \in 1..n |-> IF note /\ k = 1 THEN SomeComment ELSE NaN]])

NoFiles == [r \in Range(REGIONS) |-> [status |-> "absent", frame |-> EmptyFrame]]

InitClean ==
    /\ pc = "raw"
    /\ files = NoFiles
    /\ region_i = Len(REGIONS) + 1
    /\ dfs = <<>>
    /\ log = <<>>
    /\ error = "none"
    /\ \/ IsGHIFrame(raw_df)
       \/ IsTwoColFrame(raw_df)
       \/ IsRHFrame(raw_df)
       \/ IsRegionFrame(raw_df)
    /\ cleaned_df = EmptyFrame
    /\ recleaned_df = EmptyFrame
    /\ cleaning_impact = <<>>
    /\ recommendations = <<>>
    /\ quality_report = <<>>
    /\ regional_stats = <<>>
    /\ missing = {}

(* main.py: cleaned_df = clean_data(raw_df) *)
CleanData ==
    /\ pc = "raw"
    /\ IF CleanKeyError(raw_df)
       THEN /\ error' = "KeyError"
            /\ pc' = "cleaning failed"
            /\ UNCHANGED cleaned_df
       ELSE /\ cleaned_df' = clean_data(raw_df)
            /\ pc' = "cleaned"
            /\ UNCHANGED error
    /\ raw_df' = InputAfterClean(raw_df)
    /\ UNCHANGED <<reportVars, loaderVars, recleaned_df, analysisVars>>

(* the cleaner applied to its own output *)
CleanAgain ==
    /\ pc = "cleaned"
    /\ IF CleanKeyError(cleaned_df)
       THEN /\ error' = "KeyError"
            /\ pc' = "cleaning failed"
            /\ UNCHANGED recleaned_df
       ELSE /\ recleaned_df' = clean_data(cleaned_df)
            /\ pc' = "recleaned"
            /\ UNCHANGED error
    /\ cleaned_df' = InputAfterClean(cleaned_df)
    /\ UNCHANGED <<reportVars, loaderVars, raw_df, analysisVars>>

(* quality_report = generate_quality_report(raw_df), called before the     *)
(* cleaner or after it                                                     *)
GenerateQualityReport ==
    /\ pc \in {"raw", "cleaned"}
    /\ DOMAIN quality_report = {}
    /\ quality_report' = generate_quality_report(raw_df)
    /\ raw_df' = InputAfterReport(raw_df)
    /\ UNCHANGED <<pc, regional_stats, missing, loaderVars, error, cleaned_df, recleaned_df,
                   analysisVars>>

NextClean == CleanData \/ CleanAgain \/ GenerateQualityReport

SpecClean == InitClean /\ [][NextClean]_vars

(* ---------------------------- data_loading.py -------------------------- *)
(* region.replace('_', ' '): no configured region name holds an underscore, *)
(* so the tag of each of them is the name itself                            *)
RegionTag(region) == region

(* df['Region'] = tag: a column holding tag in every row *)
WithRegion(df, tag) ==
    [df EXCEPT !.data = [c \in Columns(df) \cup {"Region"} |->
        IF c = "Region" THEN [k \in 1..NRows(df) |-> tag] ELSE df.data[c]]]

(* load_region_data when read_csv succeeds *)
load_region_data(region) == WithRegion(files[region].frame, RegionTag(region))

(* read_csv raises: FileNotFoundError, or another exception for a file it  *)
(* cannot parse; load_region_data logs and re-raises either                *)
LoadRaises(region) == files[region].status # "ok"

(* column c of df as pd.concat sees it: all-missing when df lacks it *)
ColumnOrNaN(df, c) ==
    IF c \in Columns(df) THEN df.data[c] ELSE [k \in 1..NRows(df) |-> NaN]

(* pd.concat(frames, ignore_index=True) *)
RECURSIVE ConcatColumn(_, _)
ConcatColumn(frames, c) ==
    IF frames = <<>> THEN <<>>
    ELSE ColumnOrNaN(Head(frames), c) \o ConcatColumn(Tail(frames), c)

RECURSIVE TotalRows(_)
TotalRows(frames) ==
    IF frames = <<>> THEN 0 ELSE NRows(Head(frames)) + TotalRows(Tail(frames))

Concat(frames) ==
    [index |-> RangeIndex(TotalRows(frames)),
     data  |-> [c \in UNION {Columns(frames[k]) : k \in DOMAIN frames} |->
                   ConcatColumn(frames, c)]]

(* a skip that leaves the loop: break *)
AfterSkipMutant(i) == Len(REGIONS) + 1

(* the loop position after a region was skipped: continue *)
AfterSkip(i) == i + 1

MaxFileRows == 2

(* what a region's file can hold: rows of GHI readings, or nothing usable *)
FileStates ==
    UNION {{[status |-> "ok", frame |-> Frame(n, [c \in {"GHI"} |-> g])] :
               g \in [1..n -> {0, 10}]} : n \in 0..MaxFileRows}
    \cup {[status |-> st, frame |-> EmptyFrame] : st \in {"absent", "malformed"}}

InitLoad ==
    /\ pc = "loading"
    /\ files \in [Range(REGIONS) -> FileStates]
    /\ region_i = 1
    /\ dfs = <<>>
    /\ log = <<>>
    /\ error = "none"
    /\ raw_df = EmptyFrame
    /\ cleaned_df = EmptyFrame
    /\ recleaned_df = EmptyFrame
    /\ cleaning_impact = <<>>
    /\ recommendations = <<>>
    /\ quality_report = <<>>
    /\ regional_stats = <<>>
    /\ missing = {}

(* loop body, try branch: dfs.append(load_region_data(region)) *)
LoadRegion ==
    /\ pc = "loading"
    /\ region_i <= Len(REGIONS)
    /\ ~LoadRaises(REGIONS[region_i])
    /\ dfs' = Append(dfs, load_region_data(REGIONS[region_i]))
    /\ region_i' = region_i + 1
    /\ UNCHANGED <<reportVars, pc, files, log, error, raw_df, cleaned_df, recleaned_df,
                   analysisVars>>

(* loop body, except branch: warning, continue *)
SkipRegion ==
    /\ pc = "loading"
    /\ region_i <= Len(REGIONS)
    /\ LoadRaises(REGIONS[region_i])
    /\ log' = Append(log, <<"Skipping", REGIONS[region_i]>>)
    /\ region_i' = AfterSkip(region_i)
    /\ UNCHANGED <<reportVars, pc, files, dfs, error, raw_df, cleaned_df, recleaned_df,
                   analysisVars>>

(* if not dfs: raise ValueError("No valid data available") *)
RaiseNoData ==
    /\ pc = "loading"
    /\ region_i > Len(REGIONS)
    /\ dfs = <<>>
    /\ error' = "No valid data available"
    /\ pc' = "failed"
    /\ UNCHANGED <<reportVars, loaderVars, raw_df, cleaned_df, recleaned_df, analysisVars>>

(* return pd.concat(dfs, ignore_index=True) *)
ReturnConcat ==
    /\ pc = "loading"
    /\ region_i > Len(REGIONS)
    /\ dfs # <<>>
    /\ raw_df' = Concat(dfs)
    /\ pc' = "raw"
    /\ UNCHANGED <<reportVars, loaderVars, error, cleaned_df, recleaned_df, analysisVars>>

NextLoad == LoadRegion \/ SkipRegion \/ RaiseNoData \/ ReturnConcat

SpecLoad == InitLoad /\ [][NextLoad]_vars

(* --------------------------- loading: properties ----------------------- *)
Loadable(j) == files[REGIONS[j]].status = "ok"

(* what region number j adds to column c of the loaded Dataset *)
Part(j, c) ==
    IF ~Loadable(j) THEN <<>>
    ELSE IF c = "Region" THEN [k \in 1..NRows(files[REGIONS[j]].frame) |-> REGIONS[j]]
    ELSE files[REGIONS[j]].frame.data[c]

(* the regions whose load raises, in configured order *)
Unloadable == SelectSeq(REGIONS, LAMBDA r : files[r].status # "ok")

(* C8: every region is tried; one that fails is skipped with a warning and *)
(* the rest are still loaded; the result is the concatenation of the       *)
(* loaded regions in configured order, and the fatal error is raised       *)
(* exactly when every region failed.                                       *)
C8_SkipFailedRegions ==
    pc \in {"raw", "failed"} =>
        /\ log = [k \in DOMAIN Unloadable |-> <<"Skipping", Unloadable[k]>>]
        /\ Len(dfs) + Len(log) = Len(REGIONS)
        /\ pc = "failed" <=> (\A j \in DOMAIN REGIONS : ~Loadable(j))
        /\ pc = "failed" => error = "No valid data available"
        /\ pc = "raw" =>
              /\ error = "none"
              /\ Columns(raw_df) = {"GHI", "Region"}
              /\ \A c \in Columns(raw_df) :
                    raw_df.data[c] = Part(1, c) \o Part(2, c) \o Part(3, c)
              /\ raw_df.index = RangeIndex(Len(raw_df.data["Region"]))

(* a region failed and a later region was still loaded *)
C8_Witness ==
    /\ pc = "raw"
    /\ ~Loadable(1)
    /\ Loadable(3)
    /\ NRows(raw_df) > 0

(* ------------------------------ analysis.py ---------------------------- *)
(* A mean is kept as an exact fraction [num, den] in lowest terms with     *)
(* den > 0; the mean of no valid cell is NaN, written with den = 0.        *)
RECURSIVE GCD(_, _)
GCD(a, b) == IF b = 0 THEN a ELSE GCD(b, a % b)

Abs(a) == IF a < 0 THEN -a ELSE a

RatNaN == [num |-> 0, den |-> 0]

Rat(n, d) ==
    LET g == GCD(Abs(n), d) IN [num |-> n \div g, den |-> d \div g]

RatIsNaN(a) == a.den = 0

RatSub(a, b) ==
    IF RatIsNaN(a) \/ RatIsNaN(b) THEN RatNaN
    ELSE Rat(a.num * b.den - b.num * a.den, a.den * b.den)

RatAdd(a, b) == Rat(a.num * b.den + b.num * a.den, a.den * b.den)

RECURSIVE SumSeq(_)
SumSeq(s) == IF s = <<>> THEN 0 ELSE Head(s) + SumSeq(Tail(s))

(* Series.mean(): missing cells are skipped *)
Mean(s) ==
    LET v == SelectSeq(s, LAMBDA x : ~IsNaN(x))
    IN  IF v = <<>> THEN RatNaN ELSE Rat(SumSeq(v), Len(v))

(* df.loc[a:b, col]: the cells of the rows labelled a..b, both ends included *)
LocSlice(df, a, b, col) ==
    LET mask == [k \in 1..NRows(df) |-> df.index[k] >= a /\ df.index[k] <= b]
    IN  SelectSeq2(df.data[col], mask)

(* df.at[idx, col] *)
At(df, idx, col) ==
    df.data[col][CHOOSE k \in 1..NRows(df) : df.index[k] = idx]

(* df[df['Cleaning'] == 1].index *)
CleanEvents(df) ==
    SelectSeq2(df.index, [k \in 1..NRows(df) |-> df.data["Cleaning"][k] = 1])

(* the window check on an event's label *)
HasWindow(df, idx) == idx > 3 /\ idx < NRows(df) - 3

PreWindow(df, idx, col) == LocSlice(df, idx - 3, idx - 1, col)

(* a post window that starts at the event row *)
PostWindowMutant(df, idx, col) == LocSlice(df, idx, idx + 2, col)

PostWindow(df, idx, col) == LocSlice(df, idx + 1, idx + 3, col)

(* post[col] - pre[col] *)
Improvement(df, idx, col) ==
    RatSub(Mean(PostWindow(df, idx, col)), Mean(PreWindow(df, idx, col)))

(* the entries appended to results for the events kept *)
ResultsFor(df, kept) ==
    [k \in DOMAIN kept |->
        [Region |-> At(df, kept[k], "Region"),
         ModA_Improvement |-> Improvement(df, kept[k], "ModA"),
         ModB_Improvement |-> Improvement(df, kept[k], "ModB")]]

(* the list results: one entry per event that passes the window check *)
ImpactResults(df) ==
    ResultsFor(df, SelectSeq(CleanEvents(df), LAMBDA idx : HasWindow(df, idx)))

RECURSIVE RatSum(_)
RatSum(s) == IF s = <<>> THEN Rat(0, 1) ELSE RatAdd(Head(s), RatSum(Tail(s)))

(* the mean of a group's fractions, missing ones skipped *)
RatMean(s) ==
    LET v == SelectSeq(s, LAMBDA x : ~RatIsNaN(x))
        t == RatSum(v)
    IN  IF v = <<>> THEN RatNaN ELSE Rat(t.num, t.den * Len(v))

(* pd.DataFrame(results).groupby('Region').mean() *)
GroupMeans(results) ==
    [r \in {results[k].Region : k \in DOMAIN results} |->
        LET mine == SelectSeq(results, LAMBDA e : e.Region = r)
        IN  [ModA_Improvement |-> RatMean([k \in DOMAIN mine |-> mine[k].ModA_Improvement]),
             ModB_Improvement |-> RatMean([k \in DOMAIN mine |-> mine[k].ModB_Improvement])]]

MaxImpactRows == 9

MaxEvents == 2

(* a column that holds lo in its first p rows and hi in the rest *)
Step(n, p, lo, hi) == [k \in 1..n |-> IF k <= p THEN lo ELSE hi]

ImpactFrame(n, events, p, a, b, split) ==
    Frame(n, [c \in {"Cleaning", "ModA", "ModB", "Region"} |->
        CASE c = "Cleaning" -> [k \in 1..n |-> IF (k - 1) \in events THEN 1 ELSE 0]
          [] c = "ModA"     -> Step(n, p, a[1], a[2])
          [] c = "ModB"     -> Step(n, p, b[1], b[2])
          [] c = "Region"   -> Step(n, split, "Benin", "Togo")])

Levels == {50, 60}

(* the 20-row single-region scenario: a Cleaning flag at index 10, module  *)
(* output stepping up at the event row or right after it                   *)
IsScenarioImpactFrame(df) ==
    \E p \in {10, 11}, a \in Levels \X Levels, b \in Levels \X Levels :
        df = ImpactFrame(20, {10}, p, a, b, 20)

(* frames of up to MaxImpactRows rows with up to MaxEvents Cleaning flags, *)
(* module output stepping between two levels, one region or two            *)
IsSmallImpactFrame(df) ==
    \E n \in 0..MaxImpactRows :
        \E ev \in {e \in SUBSET (0..(n - 1)) : Cardinality(e) <= MaxEvents},
           p \in 1..n, a \in Levels \X Levels, b \in Levels \X Levels,
           split \in {n, (n + 1) \div 2} :
            df = ImpactFrame(n, ev, p, a, b, split)

InitImpact ==
    /\ pc = "cleaned"
    /\ files = NoFiles
    /\ region_i = Len(REGIONS) + 1
    /\ dfs = <<>>
    /\ log = <<>>
    /\ error = "none"
    /\ raw_df = EmptyFrame
    /\ IsSmallImpactFrame(cleaned_df) \/ IsScenarioImpactFrame(cleaned_df)
    /\ recleaned_df = EmptyFrame
    /\ cleaning_impact = <<>>
    /\ recommendations = <<>>
    /\ quality_report = <<>>
    /\ regional_stats = <<>>
    /\ missing = {}

(* analyze_cleaning_impact(cleaned_df) returns *)
AnalyzeCleaningImpact ==
    /\ pc = "cleaned"
    /\ ImpactResults(cleaned_df) # <<>>
    /\ cleaning_impact' = GroupMeans(ImpactResults(cleaned_df))
    /\ pc' = "analyzed"
    /\ UNCHANGED <<reportVars, loaderVars, error, raw_df, cleaned_df, recleaned_df, recommendations>>

(* pd.DataFrame([]) has no Region column: groupby raises KeyError *)
AnalyzeCleaningImpactRaises ==
    /\ pc = "cleaned"
    /\ ImpactResults(cleaned_df) = <<>>
    /\ error' = "KeyError: 'Region'"
    /\ pc' = "analysis failed"
    /\ UNCHANGED <<reportVars, loaderVars, raw_df, cleaned_df, recleaned_df, analysisVars>>

NextImpact == AnalyzeCleaningImpact \/ AnalyzeCleaningImpactRaises

SpecImpact == InitImpact /\ [][NextImpact]_vars

(* ---------------------- cleaning impact: properties ------------------- *)
(* the window the claim describes: rows idx-3..idx-1 and idx+1..idx+3 exist *)
RowsAroundExist(df, idx) == idx >= 3 /\ idx + 3 <= NRows(df) - 1

(* C3: a Cleaning event at index 2 contributes nothing to CleaningImpact,  *)
(* and an event at index 3 with rows 0-2 and 4-6 present is included: the  *)
(* result averages exactly the events whose two windows exist.             *)
C3_EventAtIndexThreeIncluded ==
    pc = "analyzed" =>
        cleaning_impact =
            GroupMeans(ResultsFor(cleaned_df,
                SelectSeq(CleanEvents(cleaned_df),
                          LAMBDA idx : RowsAroundExist(cleaned_df, idx))))

(* the sum of column col over the three rows after idx, less the sum over  *)
(* the three rows before it                                                *)
WindowGain(df, idx, col) ==
    (At(df, idx + 1, col) + At(df, idx + 2, col) + At(df, idx + 3, col))
    - (At(df, idx - 3, col) + At(df, idx - 2, col) + At(df, idx - 1, col))

RECURSIVE GainSum(_, _, _)
GainSum(df, evs, col) ==
    IF evs = {} THEN 0
    ELSE LET idx == CHOOSE y \in evs : TRUE
         IN  WindowGain(df, idx, col) + GainSum(df, evs \ {idx}, col)

IncludedIn(df, r) ==
    {idx \in Range(CleanEvents(df)) : HasWindow(df, idx) /\ At(df, idx, "Region") = r}

ImprovementColumn(col) ==
    IF col = "ModA" THEN "ModA_Improvement" ELSE "ModB_Improvement"

IsImpactScenario(df) ==
    /\ NRows(df) = 20
    /\ CleanEvents(df) = <<10>>
    /\ Range(df.data["Region"]) = {"Benin"}
    /\ \A j \in 7..9 : At(df, j, "ModA") = 50
    /\ \A j \in 11..13 : At(df, j, "ModA") = 60

(* C9: a region's ModA and ModB improvements are the arithmetic mean, over *)
(* its included events, of (mean of rows i+1..i+3) - (mean of rows         *)
(* i-3..i-1); the regions reported are those of the included events; the   *)
(* 20-row scenario gives ModA_Improvement = 10.                            *)
C9_MeanOfWindowDifferences ==
    pc = "analyzed" =>
        /\ DOMAIN cleaning_impact =
              {r \in Range(cleaned_df.data["Region"]) : IncludedIn(cleaned_df, r) # {}}
        /\ \A r \in DOMAIN cleaning_impact : \A col \in {"ModA", "ModB"} :
              LET got == cleaning_impact[r][ImprovementColumn(col)]
                  evs == IncludedIn(cleaned_df, r)
              IN  /\ got.den > 0
                  /\ got.num * 3 * Cardinality(evs) =
                        got.den * GainSum(cleaned_df, evs, col)
        /\ IsImpactScenario(cleaned_df) =>
              cleaning_impact["Benin"].ModA_Improvement = [num |-> 10, den |-> 1]

C9_Witness == pc = "analyzed" /\ IsImpactScenario(cleaned_df)

(* no Cleaning-flagged row of df passes the window check *)
NoEventIncluded(df) ==
    \A idx \in Range(CleanEvents(df)) : ~HasWindow(df, idx)

(* C17: when no Cleaning-flagged row passes the window check (no flagged   *)
(* row, or every flagged row too close to a boundary), the call returns an *)
(* empty CleaningImpact and raises no error.                               *)
C17_EmptyImpactReturned ==
    (pc # "cleaned" /\ NoEventIncluded(cleaned_df)) =>
        /\ pc = "analyzed"
        /\ error = "none"
        /\ DOMAIN cleaning_impact = {}

(* -------------------- analysis.py: recommendations --------------------- *)
(* In the frames of this part a cell counts hundredths of its column's     *)
(* unit, so that DataFrame.round(2) is rounding to a whole number.         *)

(* num/den (den > 0) rounded to the nearest whole number, halves to the    *)
(* even neighbour, as numpy rounds                                         *)
RoundHalfEven(num, den) ==
    LET q == num \div den
        rem == num - q * den
    IN  IF 2 * rem < den THEN q
        ELSE IF 2 * rem > den THEN q + 1
        ELSE IF q % 2 = 0 THEN q ELSE q + 1

Valid(s) == SelectSeq(s, LAMBDA x : ~IsNaN(x))

RECURSIVE SumSquares(_)
SumSquares(s) == IF s = <<>> THEN 0 ELSE Head(s) * Head(s) + SumSquares(Tail(s))

(* the cells of column col in the rows of region r *)
GroupCells(df, r, col) ==
    SelectSeq2(df.data[col], [k \in 1..NRows(df) |-> df.data["Region"][k] = r])

(* the row at which region r is first met in df *)
FirstRow(df, r) == CHOOSE k \in 1..NRows(df) :
    /\ df.data["Region"][k] = r
    /\ \A j \in 1..(k - 1) : df.data["Region"][j] # r

(* the group keys in the order the regions are first met, as               *)
(* groupby(sort=False) would give them                                     *)
GroupKeysMutant(df) ==
    LET present == Range(df.data["Region"])
    IN  CHOOSE s \in [1..Cardinality(present) -> present] :
            \A i, j \in DOMAIN s : i < j => FirstRow(df, s[i]) < FirstRow(df, s[j])

(* the group keys, in the sorted order groupby gives them; Config.REGIONS  *)
(* lists the region names in that (alphabetical) order                     *)
GroupKeys(df) == SelectSeq(REGIONS, LAMBDA r : r \in Range(df.data["Region"]))

(* ('GHI', 'mean') of one group, rounded *)
MeanRounded(s) ==
    LET v == Valid(s) IN IF v = <<>> THEN NaN ELSE RoundHalfEven(SumSeq(v), Len(v))

(* n*sum(x^2) - sum(x)^2 = n*(n-1) times the sample variance *)
VarianceNum(v) == Len(v) * SumSquares(v) - SumSeq(v) * SumSeq(v)

VarianceDen(v) == Len(v) * (Len(v) - 1)

(* sqrt(num/den) rounded to the nearest whole number, halves to even *)
RoundSqrt(num, den) ==
    CHOOSE r \in 0..(num + 1) :
        /\ \/ r = 0
           \/ (2 * r - 1) * (2 * r - 1) * den < 4 * num
           \/ (2 * r - 1) * (2 * r - 1) * den = 4 * num /\ r % 2 = 0
        /\ \/ 4 * num < (2 * r + 1) * (2 * r + 1) * den
           \/ 4 * num = (2 * r + 1) * (2 * r + 1) * den /\ r % 2 = 0

(* ('GHI', 'std') of one group (sample deviation, ddof = 1), rounded;      *)
(* missing when the group has fewer than two valid cells                   *)
StdRounded(s) ==
    LET v == Valid(s)
    IN  IF Len(v) < 2 THEN NaN ELSE RoundSqrt(VarianceNum(v), VarianceDen(v))

(* ('DNI', 'median') of one group, rounded *)
MedianRounded(s) ==
    LET v == SortedValid(s)
        n == Len(v)
    IN  IF n = 0 THEN NaN
        ELSE IF n % 2 = 1 THEN v[(n + 1) \div 2]
        ELSE RoundHalfEven(v[n \div 2] + v[n \div 2 + 1], 2)

(* ('Precipitation', 'sum') of one group: missing cells count as 0 *)
SumRounded(s) == SumSeq(Valid(s))

(* one column of analysis: the aggregate of every group, in key order *)
MeanGHI(df) == [k \in DOMAIN GroupKeys(df) |-> MeanRounded(GroupCells(df, GroupKeys(df)[k], "GHI"))]

StdGHI(df) == [k \in DOMAIN GroupKeys(df) |-> StdRounded(GroupCells(df, GroupKeys(df)[k], "GHI"))]

MedianDNI(df) == [k \in DOMAIN GroupKeys(df) |-> MedianRounded(GroupCells(df, GroupKeys(df)[k], "DNI"))]

SumPrecipitation(df) ==
    [k \in DOMAIN GroupKeys(df) |-> SumRounded(GroupCells(df, GroupKeys(df)[k], "Precipitation"))]

(* the positions of a series that hold a value *)
ValidAt(s) == {k \in DOMAIN s : ~IsNaN(s[k])}

(* Series.idxmax(): the first position holding the largest value *)
ArgMax(s) ==
    CHOOSE k \in ValidAt(s) :
        /\ \A j \in ValidAt(s) : s[j] <= s[k]
        /\ \A j \in ValidAt(s) : j < k => s[j] < s[k]

(* Series.idxmin(): the first position holding the smallest value *)
ArgMin(s) ==
    CHOOSE k \in ValidAt(s) :
        /\ \A j \in ValidAt(s) : s[j] >= s[k]
        /\ \A j \in ValidAt(s) : j < k => s[j] > s[k]

(* the columns the agg of generate_recommendations names *)
RecommendationCols == {"GHI", "DNI", "Tamb", "Precipitation", "WSgust"}

(* the label idxmax/idxmin return on a series with no value at all, in the *)
(* pandas versions that return instead of raising                          *)
NoRegion == "nan"

IdxMax(df, s) == IF ValidAt(s) = {} THEN NoRegion ELSE GroupKeys(df)[ArgMax(s)]

IdxMin(df, s) == IF ValidAt(s) = {} THEN NoRegion ELSE GroupKeys(df)[ArgMin(s)]

generate_recommendations(df) ==
    [BestOverallPotential  |-> IdxMax(df, MeanGHI(df)),
     MostStableRadiation   |-> IdxMin(df, StdGHI(df)),
     LowestMaintenanceRisk |-> IdxMin(df, SumPrecipitation(df)),
     OptimalCSPLocation    |-> IdxMax(df, MedianDNI(df))]

(* the columns the KeyError of groupby(...).agg(...) names: the grouping   *)
(* column when it is absent, else every absent column of the agg dict      *)
MissingColumns(df, cols) ==
    IF "Region" \notin Columns(df) THEN {"Region"} ELSE cols \ Columns(df)

(* groupby or agg raises KeyError: Region or an aggregated column is absent *)
RecommendationKeyError(df) == ~((RecommendationCols \cup {"Region"}) \subseteq Columns(df))

(* some selected series holds no value: idxmax/idxmin of an empty series   *)
(* raises ValueError; of an all-missing series it raises ValueError or     *)
(* returns NaN, depending on the pandas version                            *)
SomeSeriesEmpty(df) == GroupKeys(df) = <<>>

SomeSeriesAllMissing(df) ==
    \E s \in {MeanGHI(df), StdGHI(df), SumPrecipitation(df), MedianDNI(df)} :
        ValidAt(s) = {}

MaxRegionRows == 3

(* the rows of one region: (GHI, DNI) readings row by row, the same        *)
(* Precipitation reading p in every row                                    *)
RegionFrame(r, n, cells, p) ==
    [index |-> RangeIndex(n),
     data  |-> [c \in RecommendationCols \cup {"Region"} |->
        CASE c = "Region"        -> [k \in 1..n |-> r]
          [] c = "GHI"           -> [k \in 1..n |-> cells[k][1]]
          [] c = "DNI"           -> [k \in 1..n |-> cells[k][2]]
          [] c = "Precipitation" -> [k \in 1..n |-> p]
          [] c = "Tamb"          -> [k \in 1..n |-> 2500]
          [] c = "WSgust"        -> [k \in 1..n |-> 300]]]

(* frames of up to MaxRegionRows rows of Benin and of Togo, in either      *)
(* order, with or without the WSgust column                                *)
IsRecommendationFrame(df) ==
    \E n1, n2 \in 0..MaxRegionRows :
        \E c1 \in [1..n1 -> {<<0, 0>>, <<1, 0>>, <<0, 1>>}],
           c2 \in [1..n2 -> {<<0, 0>>, <<1, 0>>, <<0, 1>>}],
           p1, p2 \in {0, 1}, beninFirst, gust \in BOOLEAN :
            LET b == RegionFrame("Benin", n1, c1, p1)
                t == RegionFrame("Togo", n2, c2, p2)
                all == Concat(IF beninFirst THEN <<b, t>> ELSE <<t, b>>)
            IN  df = IF gust THEN all ELSE DropColumn(all, "WSgust")

InitRecommend ==
    /\ pc = "cleaned"
    /\ files = NoFiles
    /\ region_i = Len(REGIONS) + 1
    /\ dfs = <<>>
    /\ log = <<>>
    /\ error = "none"
    /\ raw_df = EmptyFrame
    /\ IsRecommendationFrame(cleaned_df)
    /\ recleaned_df = EmptyFrame
    /\ cleaning_impact = <<>>
    /\ recommendations = <<>>
    /\ quality_report = <<>>
    /\ regional_stats = <<>>
    /\ missing = {}

(* generate_recommendations(cleaned_df) returns *)
GenerateRecommendations ==
    /\ pc = "cleaned"
    /\ ~RecommendationKeyError(cleaned_df)
    /\ ~SomeSeriesEmpty(cleaned_df)
    /\ recommendations' = generate_recommendations(cleaned_df)
    /\ pc' = "recommended"
    /\ UNCHANGED <<reportVars, loaderVars, error, raw_df, cleaned_df, recleaned_df, cleaning_impact>>

(* generate_recommendations(cleaned_df) raises *)
GenerateRecommendationsRaises ==
    /\ pc = "cleaned"
    /\ \/ /\ RecommendationKeyError(cleaned_df)
          /\ error' = "KeyError"
          /\ missing' = MissingColumns(cleaned_df, RecommendationCols)
       \/ /\ ~RecommendationKeyError(cleaned_df)
          /\ SomeSeriesEmpty(cleaned_df) \/ SomeSeriesAllMissing(cleaned_df)
          /\ error' = "ValueError"
          /\ UNCHANGED missing
    /\ pc' = "recommendation failed"
    /\ UNCHANGED <<quality_report, regional_stats, loaderVars, raw_df, cleaned_df, recleaned_df, analysisVars>>

NextRecommend == GenerateRecommendations \/ GenerateRecommendationsRaises

SpecRecommend == InitRecommend /\ [][NextRecommend]_vars

(* ------------------ analysis.py: regional statistics ------------------- *)
(* agg 'max' of one group: missing cells are skipped *)
MaxOf(s) ==
    LET v == Valid(s)
    IN  IF v = <<>> THEN NaN ELSE CHOOSE x \in Range(v) : \A y \in Range(v) : y <= x

(* a column list of calculate_regional_stats that leaves WS out *)
StatsColsMutant == {"GHI", "DNI", "Tamb", "Precipitation"}

(* the columns the agg of calculate_regional_stats names *)
StatsCols == {"GHI", "DNI", "Tamb", "WS", "Precipitation"}

(* df.groupby('Region').agg({...}).round(2): one row of aggregates per     *)
(* region                                                                  *)
calculate_regional_stats(df) ==
    [r \in Range(GroupKeys(df)) |->
        [GHI_mean          |-> MeanRounded(GroupCells(df, r, "GHI")),
         GHI_std           |-> StdRounded(GroupCells(df, r, "GHI")),
         GHI_max           |-> MaxOf(GroupCells(df, r, "GHI")),
         DNI_median        |-> MedianRounded(GroupCells(df, r, "DNI")),
         DNI_max           |-> MaxOf(GroupCells(df, r, "DNI")),
         Tamb_mean         |-> MeanRounded(GroupCells(df, r, "Tamb")),
         Tamb_std          |-> StdRounded(GroupCells(df, r, "Tamb")),
         WS_mean           |-> MeanRounded(GroupCells(df, r, "WS")),
         WS_max            |-> MaxOf(GroupCells(df, r, "WS")),
         Precipitation_sum |-> SumRounded(GroupCells(df, r, "Precipitation"))]]

(* groupby or agg raises KeyError: Region or an aggregated column is absent *)
StatsKeyError(df) == MissingColumns(df, StatsCols) # {}

(* the reading columns of the Datasets below *)
ReadingCols == {"GHI", "DNI", "Tamb", "WS", "WSgust", "Precipitation"}

MaxStatRows == 2

MaxAbsent == 2

(* df with the column c added, the same reading in every row *)
WithColumn(df, c, v) ==
    [index |-> df.index,
     data  |-> [x \in Columns(df) \cup {c} |->
                    IF x = c THEN [k \in 1..NRows(df) |-> v] ELSE df.data[x]]]

(* df.drop(columns=cs) *)
DropColumns(df, cs) ==
    [index |-> df.index, data |-> [x \in Columns(df) \ cs |-> df.data[x]]]

(* frames of up to MaxStatRows rows of Benin and of Togo from which up to  *)
(* MaxAbsent of the aggregated columns are absent                          *)
IsStatsFrame(df) ==
    \E n1, n2 \in 0..MaxStatRows :
        \E c1 \in [1..n1 -> {<<0, 0>>, <<1, 0>>}],
           c2 \in [1..n2 -> {<<0, 0>>, <<1, 0>>}],
           p1, p2 \in {0, 1},
           absent \in {a \in SUBSET ReadingCols : Cardinality(a) <= MaxAbsent} :
            LET b == RegionFrame("Benin", n1, c1, p1)
                t == RegionFrame("Togo", n2, c2, p2)
            IN  df = DropColumns(WithColumn(Concat(<<b, t>>), "WS", 200), absent)

InitStats ==
    /\ pc = "cleaned"
    /\ files = NoFiles
    /\ region_i = Len(REGIONS) + 1
    /\ dfs = <<>>
    /\ log = <<>>
    /\ error = "none"
    /\ raw_df = EmptyFrame
    /\ IsStatsFrame(cleaned_df)
    /\ recleaned_df = EmptyFrame
    /\ cleaning_impact = <<>>
    /\ recommendations = <<>>
    /\ quality_report = <<>>
    /\ regional_stats = <<>>
    /\ missing = {}

(* calculate_regional_stats(cleaned_df) returns *)
CalculateRegionalStats ==
    /\ pc = "cleaned"
    /\ ~StatsKeyError(cleaned_df)
    /\ regional_stats' = calculate_regional_stats(cleaned_df)
    /\ pc' = "stats ready"
    /\ UNCHANGED <<quality_report, missing, loaderVars, error, raw_df, cleaned_df,
                   recleaned_df, analysisVars>>

(* calculate_regional_stats(cleaned_df) logs the KeyError and raises it *)
CalculateRegionalStatsRaises ==
    /\ pc = "cleaned"
    /\ StatsKeyError(cleaned_df)
    /\ error' = "KeyError"
    /\ missing' = MissingColumns(cleaned_df, StatsCols)
    /\ pc' = "stats failed"
    /\ UNCHANGED <<quality_report, regional_stats, loaderVars, raw_df, cleaned_df,
                   recleaned_df, analysisVars>>

(* either analysis function is called on the cleaned Dataset *)
NextStats ==
    \/ CalculateRegionalStats
    \/ CalculateRegionalStatsRaises
    \/ GenerateRecommendations
    \/ GenerateRecommendationsRaises

SpecStats == InitStats /\ [][NextStats]_vars

(* --------------------- missing columns: properties --------------------- *)
(* C12: calculate_regional_stats raises a KeyError naming the absent       *)
(* columns whenever any of GHI, DNI, Tamb, WS, Precipitation is absent,    *)
(* and generate_recommendations does whenever any of GHI, DNI, Tamb,       *)
(* Precipitation, WSgust is absent; neither leaves a result behind.        *)
C12_MissingColumnRaises ==
    /\ pc \in {"stats ready", "stats failed"} =>
          LET absent == {"GHI", "DNI", "Tamb", "WS", "Precipitation"} \ Columns(cleaned_df)
          IN  absent # {} =>
                  /\ pc = "stats failed"
                  /\ error = "KeyError"
                  /\ missing = absent
                  /\ regional_stats = <<>>
    /\ pc \in {"recommended", "recommendation failed"} =>
          LET absent == {"GHI", "DNI", "Tamb", "Precipitation", "WSgust"} \ Columns(cleaned_df)
          IN  absent # {} =>
                  /\ pc = "recommendation failed"
                  /\ error = "KeyError"
                  /\ missing = absent
                  /\ recommendations = <<>>

(* WS alone is absent from a Dataset with rows and the statistics call     *)
(* has raised                                                              *)
C12_Witness ==
    /\ pc = "stats failed"
    /\ NRows(cleaned_df) > 0
    /\ StatsCols \ Columns(cleaned_df) = {"WS"}
    /\ RecommendationCols \subseteq Columns(cleaned_df)

(* ---------------------- recommendations: properties -------------------- *)
(* exact comparisons of two groups' aggregates, without rounding *)
MeanLeq(a, b) == SumSeq(a) * Len(b) <= SumSeq(b) * Len(a)

VarianceLeq(a, b) ==
    VarianceNum(a) * VarianceDen(b) <= VarianceNum(b) * VarianceDen(a)

(* twice the median of a group's cells *)
Median2(s) ==
    LET v == SortedValid(s)
        n == Len(v)
    IN  IF n % 2 = 1 THEN 2 * v[(n + 1) \div 2] ELSE v[n \div 2] + v[n \div 2 + 1]

RegionsOf(df) == Range(df.data["Region"])

(* C10: for every non-empty cleaned Dataset the four labels name a region  *)
(* with the highest mean GHI, the lowest GHI standard deviation (among the *)
(* regions that have one), the lowest Precipitation sum and the highest    *)
(* median DNI.                                                             *)
C10_LabelsNameTheExtremum ==
    (pc = "recommended" /\ NRows(cleaned_df) > 0) =>
        LET df == cleaned_df
            G(r) == GroupCells(df, r, "GHI")
            withStd == {r \in RegionsOf(df) : Len(G(r)) >= 2}
        IN  /\ recommendations.BestOverallPotential \in RegionsOf(df)
            /\ \A r \in RegionsOf(df) :
                  MeanLeq(G(r), G(recommendations.BestOverallPotential))
            /\ withStd # {} =>
                  /\ recommendations.MostStableRadiation \in withStd
                  /\ \A r \in withStd :
                        VarianceLeq(G(recommendations.MostStableRadiation), G(r))
            /\ recommendations.LowestMaintenanceRisk \in RegionsOf(df)
            /\ \A r \in RegionsOf(df) :
                  SumSeq(GroupCells(df, recommendations.LowestMaintenanceRisk, "Precipitation"))
                      <= SumSeq(GroupCells(df, r, "Precipitation"))
            /\ recommendations.OptimalCSPLocation \in RegionsOf(df)
            /\ \A r \in RegionsOf(df) :
                  Median2(GroupCells(df, r, "DNI"))
                      <= Median2(GroupCells(df, recommendations.OptimalCSPLocation, "DNI"))

Labels ==
    {"BestOverallPotential", "MostStableRadiation", "LowestMaintenanceRisk",
     "OptimalCSPLocation"}

(* the rounded aggregate of region r that decides a label, negated for the *)
(* labels that go to the smallest value, so that the largest always wins   *)
Score(df, label, r) ==
    CASE label = "BestOverallPotential"  -> MeanRounded(GroupCells(df, r, "GHI"))
      [] label = "MostStableRadiation"   ->
            LET v == StdRounded(GroupCells(df, r, "GHI")) IN IF IsNaN(v) THEN NaN ELSE 0 - v
      [] label = "LowestMaintenanceRisk" -> 0 - SumRounded(GroupCells(df, r, "Precipitation"))
      [] label = "OptimalCSPLocation"    -> MedianRounded(GroupCells(df, r, "DNI"))

(* the regions that tie on the winning value of a label *)
Tied(df, label) ==
    LET scored == {r \in RegionsOf(df) : ~IsNaN(Score(df, label, r))}
    IN  {r \in scored : \A q \in scored : Score(df, label, q) <= Score(df, label, r)}

(* the place of a region name in ascending name order *)
KeyRank(r) == CHOOSE k \in DOMAIN REGIONS : REGIONS[k] = r

RowAt(df, k) == [c \in Columns(df) |-> df.data[c][k]]

Rows(df) == [k \in 1..NRows(df) |-> RowAt(df, k)]

(* a is b with some elements left out *)
RECURSIVE IsSubseq(_, _)
IsSubseq(a, b) ==
    IF a = <<>> THEN TRUE
    ELSE IF b = <<>> THEN FALSE
    ELSE IF Head(a) = Head(b) THEN IsSubseq(Tail(a), Tail(b))
    ELSE IsSubseq(a, Tail(b))

CheckedCols(df) == Columns(df) \cap Range(OUTLIER_COLS)

(* C1 as stated: cleaning a cleaned Dataset returns it unchanged. *)
C1_Idempotent == pc = "recleaned" => recleaned_df = cleaned_df

(* C1 as amended: the second application changes no value and reorders no  *)
(* row; its rows are the first result's rows with possibly some left out,  *)
(* again labelled 0..n-1.                                                   *)
C1_SecondPassOnlyRemoves ==
    pc = "recleaned" =>
        /\ Columns(recleaned_df) = Columns(cleaned_df)
        /\ IsSubseq(Rows(recleaned_df), Rows(cleaned_df))
        /\ recleaned_df.index = RangeIndex(NRows(recleaned_df))

(* the second application removed a row the first had kept *)
C1_Witness == pc = "recleaned" /\ NRows(recleaned_df) < NRows(cleaned_df)

IsGHIScenario(df) ==
    /\ CheckedCols(df) = {"GHI"}
    /\ df.data["GHI"] = ScenarioGHI

(* C2 as stated: on GHI = [-5, 10, 2000, 15, 12] the cleaner rejects the   *)
(* row holding 2000 and returns 4 rows, the clipped 0 among them.          *)
C2_ScenarioLeavesFour ==
    (pc = "cleaned" /\ IsGHIScenario(raw_df)) =>
        /\ NRows(cleaned_df) = 4
        /\ 2000 \notin Range(cleaned_df.data["GHI"])
        /\ 0 \in Range(cleaned_df.data["GHI"])

(* C2 as amended: on that input the cleaner rejects the row holding 2000   *)
(* and the row clipped to 0, and returns the 3 rows 10, 15, 12.            *)
C2_ScenarioLeavesThree ==
    (pc = "cleaned" /\ IsGHIScenario(raw_df)) =>
        cleaned_df.data["GHI"] = <<10, 15, 12>>

C2_Witness == pc = "cleaned" /\ IsGHIScenario(raw_df)

(* C4: a cleaned Dataset has no missing cell in any column. *)
C4_NoMissing ==
    pc = "cleaned" =>
        \A c \in Columns(cleaned_df) \ TextCols :
            \A k \in 1..NRows(cleaned_df) : ~IsNaN(cleaned_df.data[c][k])

(* every cell of column c of df lies within the outlier bounds that the    *)
(* quartiles of column c of ref give                                       *)
WithinBoundsOf(df, ref, c) ==
    \A k \in 1..NRows(df) :
        InBounds(df.data[c][k], Quantile4(ref.data[c], 1), Quantile4(ref.data[c], 3))

(* C5 as stated: every outlier-checked cell of the cleaned Dataset lies    *)
(* within the bounds computed over the cleaned Dataset itself.             *)
C5_WithinFinalBounds ==
    pc = "cleaned" =>
        \A c \in CheckedCols(cleaned_df) : WithinBoundsOf(cleaned_df, cleaned_df, c)

(* C5 as amended: every outlier-checked cell of the cleaned Dataset lies   *)
(* within the bounds computed over the rows present when its column was    *)
(* checked, that is the rows that survived the earlier columns.            *)
C5_WithinBoundsAtCheck ==
    pc = "cleaned" =>
        \A j \in 1..Len(OUTLIER_COLS) :
            OUTLIER_COLS[j] \in Columns(cleaned_df) =>
                WithinBoundsOf(cleaned_df, OutlierLoop(Prepared(raw_df), j - 1),
                               OUTLIER_COLS[j])

(* rows were rejected, and a surviving cell is outside the final bounds *)
C5_Witness ==
    /\ pc = "cleaned"
    /\ NRows(cleaned_df) < NRows(raw_df)
    /\ \E c \in CheckedCols(cleaned_df) : ~WithinBoundsOf(cleaned_df, cleaned_df, c)

(* C6: every solar cell of a cleaned Dataset is a value >= 0. *)
C6_SolarNonNegative ==
    pc = "cleaned" =>
        \A c \in Columns(cleaned_df) \cap Range(SOLAR_COLS) :
            \A k \in 1..NRows(cleaned_df) :
                ~IsNaN(cleaned_df.data[c][k]) /\ cleaned_df.data[c][k] >= 0

(* a negative reading was clipped and its row kept *)
C6_Witness ==
    /\ pc = "cleaned"
    /\ NRows(cleaned_df) = NRows(raw_df)
    /\ \E k \in 1..NRows(raw_df) :
          ~IsNaN(raw_df.data["GHI"][k]) /\ raw_df.data["GHI"][k] < 0

(* C7: every RH cell of a cleaned Dataset is a value in [0, 100]. *)
C7_RHInRange ==
    (pc = "cleaned" /\ "RH" \in Columns(cleaned_df)) =>
        \A k \in 1..NRows(cleaned_df) :
            /\ ~IsNaN(cleaned_df.data["RH"][k])
            /\ cleaned_df.data["RH"][k] >= 0
            /\ cleaned_df.data["RH"][k] <= 100

(* C13: clean_data never raises because a column is absent: the drop, clip *)
(* or outlier step of an absent column is skipped, the steps of the        *)
(* columns present still run (solar cells clipped at 0, RH cells clipped   *)
(* into [0, 100], outlier-checked columns free of missing cells), the      *)
(* other columns are all returned, and an output with zero rows is         *)
(* returned like any other.                                                *)
C13_AbsentColumnSkipped ==
    pc # "raw" =>
        /\ pc # "cleaning failed"
        /\ error = "none"
        /\ Columns(cleaned_df) = Columns(raw_df) \ {"Comments"}
        /\ cleaned_df.index = RangeIndex(NRows(cleaned_df))
        /\ \A k \in 1..NRows(cleaned_df) :
              /\ \A c \in Columns(cleaned_df) \cap Range(SOLAR_COLS) :
                    cleaned_df.data[c][k] >= 0
              /\ \A c \in CheckedCols(cleaned_df) : ~IsNaN(cleaned_df.data[c][k])
              /\ "RH" \in Columns(cleaned_df) =>
                    \/ IsNaN(cleaned_df.data["RH"][k])
                    \/ cleaned_df.data["RH"][k] \in 0..100

(* a Dataset with rows but without the annotation column, Tamb, WS and     *)
(* four of the solar columns is cleaned to zero rows                       *)
C13_Witness ==
    /\ pc = "cleaned"
    /\ Columns(raw_df) = {"GHI", "RH"}
    /\ NRows(raw_df) > 0
    /\ NRows(cleaned_df) = 0
    /\ error = "none"

PickCells(s, keep) == SelectSeq2(s, [k \in DOMAIN s |-> k \in keep])

(* the positions of the rows of p that are left after the first j columns  *)
(* of the order GHI, DNI, DHI, ModA, ModB, Tamb, WS have been checked,     *)
(* each against the quartiles of the rows left by the columns before it    *)
RECURSIVE Survivors(_, _)
Survivors(p, j) ==
    IF j = 0 THEN 1..NRows(p)
    ELSE LET before == Survivors(p, j - 1)
             col == <<"GHI", "DNI", "DHI", "ModA", "ModB", "Tamb", "WS">>[j]
         IN  IF col \notin Columns(p) THEN before
             ELSE LET cells == PickCells(p.data[col], before)
                  IN  {k \in before : InBounds(p.data[col][k], Quantile4(cells, 1),
                                                Quantile4(cells, 3))}

(* C15: outlier rejection is a sequential pass over GHI, DNI, DHI, ModA,   *)
(* ModB, Tamb, WS: each column's quartiles are taken over the rows that    *)
(* survived the earlier columns, a rejected row takes no part in a later   *)
(* check, and the survivors are returned in their original order with the *)
(* index 0..n-1.                                                           *)
C15_SequentialPass ==
    pc = "cleaned" =>
        LET p == Prepared(raw_df)
            keep == Survivors(p, 7)
        IN  /\ cleaned_df.index = RangeIndex(Cardinality(keep))
            /\ Columns(cleaned_df) = Columns(p)
            /\ \A c \in Columns(p) : cleaned_df.data[c] = PickCells(p.data[c], keep)

(* a row was rejected for GHI, and a row that survives every check has a   *)
(* WS cell outside the bounds that the whole WS column gives               *)
C15_Witness ==
    /\ pc = "cleaned"
    /\ {"GHI", "WS"} \subseteq Columns(raw_df)
    /\ LET p == Prepared(raw_df)
       IN  /\ Survivors(p, 1) # 1..NRows(p)
           /\ \E k \in Survivors(p, 7) : ~OutlierMask(p.data["WS"])[k]

(* the most recent non-missing cell of s at or before row k, NaN when      *)
(* there is none                                                           *)
LastSeen(s, k) ==
    LET seen == {j \in 1..k : ~IsNaN(s[j])}
    IN  IF seen = {} THEN NaN ELSE s[CHOOSE j \in seen : \A i \in seen : i <= j]

(* the clip that the cleaner applies to a cell of column c *)
ClipOf(c, v) ==
    IF c \in Range(SOLAR_COLS) THEN ClipLower(v, 0)
    ELSE IF c = "RH" THEN ClipBoth(v, 0, 100)
    ELSE v

(* C16: forward-fill runs down the rows of the whole Dataset: in every row *)
(* the cleaner keeps, a cell holds (clipped) the most recent non-missing   *)
(* value of its column from the rows at or before it, whatever region      *)
(* those rows belong to, and stays missing when there is none.             *)
C16_FillAcrossRegions ==
    pc = "cleaned" =>
        LET keep == Survivors(Prepared(raw_df), 7)
        IN  \A c \in Columns(cleaned_df) \ TextCols :
                cleaned_df.data[c] =
                    PickCells([k \in 1..NRows(raw_df) |->
                                  ClipOf(c, LastSeen(raw_df.data[c], k))], keep)

(* every row is kept; the first RH cell was missing and still is; a later  *)
(* missing RH cell, in the first row of Togo, holds the reading of the     *)
(* Benin row before it                                                     *)
C16_Witness ==
    /\ pc = "cleaned"
    /\ {"Region", "RH"} \subseteq Columns(raw_df)
    /\ NRows(cleaned_df) = NRows(raw_df)
    /\ NRows(raw_df) >= 3
    /\ IsNaN(raw_df.data["RH"][1]) /\ IsNaN(cleaned_df.data["RH"][1])
    /\ \E k \in 2..NRows(raw_df) :
          /\ IsNaN(raw_df.data["RH"][k])
          /\ raw_df.data["Region"][k - 1] = "Benin"
          /\ raw_df.data["Region"][k] = "Togo"
          /\ ~IsNaN(raw_df.data["RH"][k - 1])
          /\ cleaned_df.data["RH"][k] = raw_df.data["RH"][k - 1]


====
